---- MODULE Spec2Model ----
(***************************************************************************)
(* Model of custom_components/spotify_custom/__init__.py: the setup of a   *)
(* config entry (async_setup_entry), the device coordinator built around   *)
(* _update_devices, and the two service handlers registered by the setup.  *)
(*                                                                         *)
(* The host runs one cooperative event loop: code between two awaits is    *)
(* atomic.  The setup is modelled one statement at a time (pc), and the    *)
(* handlers and polls can only run while the setup is suspended in an      *)
(* await that yields to them, or after it has returned or raised.          *)
(***************************************************************************)
EXTENDS Naturals, Sequences, FiniteSets

(* ------------------------------ bounds -------------------------------- *)

\* longest granted-scope string of the token, counted in scopes
MaxScopeLen == 3
\* how many times spotify.get_devices may be called in one behaviour
MaxCalls == 3
\* how many refreshes of the device coordinator may be in flight at once
MaxInFlight == 2
\* how many times the session may replace the access token
MaxTokenGen == 1

(* --------------------------- value domains ---------------------------- *)

\* const.SPOTIFY_SCOPES, imported at line 23 (const.py): the required scopes
SPOTIFY_SCOPES == {"s1", "s2"}

\* scopes a token may carry: the required ones and one more
ScopeNames == SPOTIFY_SCOPES \cup {"extra"}

RECURSIVE SeqsUpTo(_, _)
SeqsUpTo(S, n) ==
    IF n = 0 THEN {<< >>}
    ELSE LET shorter == SeqsUpTo(S, n - 1)
         IN  shorter \cup {Append(s, x) : s \in {t \in shorter : Len(t) = n - 1}, x \in S}

\* token["scope"]: the granted scopes, in the order the string lists them
ScopeStrings == SeqsUpTo(ScopeNames, MaxScopeLen)

\* lists of devices spotify.get_devices() can return
DeviceLists == {<< >>, <<"d1">>, <<"d1", "d2">>}

\* what one call of spotify.get_devices() can end in: a list, the client's
\* SpotifyConnectionError (HTTP transport), or the aiohttp.ClientError that
\* session.async_ensure_token_valid() raises (lines 48-51) when the client
\* runs the refresh_token_function (_refresh_token) before the request
FetchOutcomes ==
    {[kind |-> "ok", devices |-> d] : d \in DeviceLists}
      \cup {[kind |-> "SpotifyConnectionError", devices |-> << >>],
            [kind |-> "ClientError", devices |-> << >>]}

PLATFORMS == {"media_player", "sensor"}

\* DataUpdateCoordinator.data: None until a refresh succeeds, then the list
\* the update method returned
Uninitialized == [ready |-> FALSE, devices |-> << >>]
Snapshot(d) == [ready |-> TRUE, devices |-> d]

\* entry.runtime_data before line 122
NoRuntimeData == [coordinator |-> "None", session |-> "None", devices |-> "None"]

\* a service call's response payload when there is none
NoPayload == << >>

NoCall == [service |-> "none", raised |-> "none", response |-> NoPayload,
           refresh |-> "none", dataBefore |-> Uninitialized,
           dataAfter |-> Uninitialized, lastUpdateSuccess |-> TRUE]

VARIABLES
    pc,               \* the statement async_setup_entry is at
    setupResult,      \* "pending", "True", or the exception setup raised
    token,            \* session.token: [access_token, scope]
    spotifyToken,     \* the token the SpotifyClient holds (0: none)
    refreshWired,     \* spotify.refresh_token_function is _refresh_token
    primaryCreated,   \* coordinator exists (line 66)
    primaryData,      \* coordinator.data
    devCreated,       \* device_coordinator exists (lines 76-83)
    devData,          \* device_coordinator.data ("None" before the first poll)
    devLastSuccess,   \* device_coordinator.last_update_success
    devTimer,         \* the device coordinator's next scheduled refresh is armed
    inflight,         \* refreshes of the device coordinator awaiting get_devices
    getDevicesCalls,  \* number of calls of spotify.get_devices() so far
    updateFnExit,     \* how _update_devices was left the last time it ran
    devFirstOutcome,  \* how get_devices ended in the first refresh
    lastGood,         \* the list returned by the latest successful get_devices
    services,         \* services registered under DOMAIN
    runtime_data,     \* entry.runtime_data
    forwarded,        \* platforms the entry setup has been forwarded to
    lastCall          \* the latest completed service call, as its caller saw it

vars == <<pc, setupResult, token, spotifyToken, refreshWired, primaryCreated,
          primaryData, devCreated, devData, devLastSuccess, devTimer, inflight,
          getDevicesCalls, updateFnExit, devFirstOutcome, lastGood, services,
          runtime_data, forwarded, lastCall>>

(* ----------------------------- helpers -------------------------------- *)

\* set(session.token["scope"].split(" ")): the scopes listed, duplicates and
\* order dropped
ScopeSet(scope) == {scope[i] : i \in DOMAIN scope}

\* the check of line 124 written with issubset in place of issuperset
ScopesSufficient_issubset(scope) == ScopeSet(scope) \subseteq SPOTIFY_SCOPES

\* line 124: set(...).issuperset(SPOTIFY_SCOPES)
ScopesSufficient(scope) == SPOTIFY_SCOPES \subseteq ScopeSet(scope)

\* models.SpotifyData(coordinator, session, device_coordinator), line 122
SpotifyData(c, s, d) == [coordinator |-> c, session |-> s, devices |-> d]

\* the setup with the platforms forwarded before the scopes are checked
SetupOrder_forward_first ==
    <<"ensure_token", "authenticate", "primary_first_refresh",
      "device_first_refresh", "register_update_devices", "register_search",
      "set_runtime_data", "forward_platforms", "check_scopes", "return_true">>

\* the statements of async_setup_entry, in the order the function runs them
SetupOrder ==
    <<"ensure_token",            \* 48-51
      "authenticate",            \* 53-64
      "primary_first_refresh",   \* 66-68
      "device_first_refresh",    \* 70-84
      "register_update_devices", \* 87-90
      "register_search",         \* 93-98
      "set_runtime_data",        \* 122
      "check_scopes",            \* 124-125
      "forward_platforms",       \* 127
      "return_true">>            \* 128

IndexOf(step) == CHOOSE i \in DOMAIN SetupOrder : SetupOrder[i] = step

\* the statement after `step`
After(step) ==
    IF IndexOf(step) = Len(SetupOrder) THEN "done" ELSE SetupOrder[IndexOf(step) + 1]

\* an update function that swallows the connection error and returns no devices
update_devices_swallow(outcome) ==
    CASE outcome.kind = "ok" -> [exit |-> "return", devices |-> outcome.devices]
      [] outcome.kind = "SpotifyConnectionError" -> [exit |-> "return", devices |-> << >>]
      [] OTHER -> [exit |-> outcome.kind, devices |-> << >>]

\* _update_devices (lines 70-74): what leaves the update function for each
\* way get_devices can end.  Only SpotifyConnectionError is caught.
update_devices(outcome) ==
    CASE outcome.kind = "ok" -> [exit |-> "return", devices |-> outcome.devices]
      [] outcome.kind = "SpotifyConnectionError" -> [exit |-> "UpdateFailed", devices |-> << >>]
      [] OTHER -> [exit |-> outcome.kind, devices |-> << >>]

\* a refresh that drops the stored data when the update method raises
DataAfterRefresh_clear(old, res) ==
    IF res.exit = "return" THEN Snapshot(res.devices) ELSE Uninitialized

\* DataUpdateCoordinator refresh: data is assigned only when the update
\* method returns; an exception leaves it as it was
DataAfterRefresh(old, res) == IF res.exit = "return" THEN Snapshot(res.devices) ELSE old

\* device_coordinator.async_config_entry_first_refresh() (line 84): a first
\* refresh that did not succeed raises ConfigEntryNotReady
first_refresh_raises(res) == IF res.exit = "return" THEN "none" ELSE "ConfigEntryNotReady"

\* a refresh that raises what the update method raised
async_refresh_propagates(res) == IF res.exit = "return" THEN "none" ELSE res.exit

\* device_coordinator.async_refresh() (line 88): refreshes and logs errors;
\* the failure of the update method is recorded, not raised
async_refresh_raises(res) == "none"

\* the setup is suspended in an await that lets other tasks run, or is over
Yielding == pc \in {"forward_platforms", "done", "failed"}

ScheduledInFlight == \E i \in DOMAIN inflight : inflight[i].kind = "scheduled"

RemoveAt(s, i) == SubSeq(s, 1, i - 1) \o SubSeq(s, i + 1, Len(s))

(* ------------------------------- Init --------------------------------- *)

Init ==
    /\ pc = SetupOrder[1]
    /\ setupResult = "pending"
    /\ token \in [access_token : {1}, scope : ScopeStrings]
    /\ spotifyToken = 0
    /\ refreshWired = FALSE
    /\ primaryCreated = FALSE
    /\ primaryData = "None"
    /\ devCreated = FALSE
    /\ devData = Uninitialized
    /\ devLastSuccess = TRUE
    /\ devTimer = FALSE
    /\ inflight = << >>
    /\ getDevicesCalls = 0
    /\ updateFnExit = "none"
    /\ devFirstOutcome = "none"
    /\ lastGood = Uninitialized
    /\ services = {}
    /\ runtime_data = NoRuntimeData
    /\ forwarded = {}
    /\ lastCall = NoCall

(* ------------------------- async_setup_entry -------------------------- *)

\* session.async_ensure_token_valid() may replace the access token
RefreshedTokens ==
    {token} \cup
      (IF token.access_token <= MaxTokenGen
          THEN {[token EXCEPT !.access_token = @ + 1]} ELSE {})

Fail(exc) ==
    /\ pc' = "failed"
    /\ setupResult' = exc

\* lines 48-51
EnsureTokenValid ==
    /\ pc = "ensure_token"
    /\ \E ok \in BOOLEAN :
         IF ok
            THEN /\ token' \in RefreshedTokens
                 /\ pc' = After("ensure_token")
                 /\ UNCHANGED setupResult
            ELSE /\ Fail("ConfigEntryNotReady")
                 /\ UNCHANGED token
    /\ UNCHANGED <<spotifyToken, refreshWired, primaryCreated, primaryData,
                   devCreated, devData, devLastSuccess, devTimer, inflight,
                   getDevicesCalls, updateFnExit, devFirstOutcome, lastGood,
                   services, runtime_data, forwarded, lastCall>>

\* lines 53-64
Authenticate ==
    /\ pc = "authenticate"
    /\ spotifyToken' = token.access_token
    /\ refreshWired' = TRUE
    /\ pc' = After("authenticate")
    /\ UNCHANGED <<setupResult, token, primaryCreated, primaryData, devCreated,
                   devData, devLastSuccess, devTimer, inflight, getDevicesCalls,
                   updateFnExit, devFirstOutcome, lastGood, services,
                   runtime_data, forwarded, lastCall>>

\* lines 66-68: SpotifyCoordinator(hass, spotify) and its first refresh
PrimaryFirstRefresh ==
    /\ pc = "primary_first_refresh"
    /\ primaryCreated' = TRUE
    /\ \E ok \in BOOLEAN :
         IF ok
            THEN /\ primaryData' = "playback"
                 /\ pc' = After("primary_first_refresh")
                 /\ UNCHANGED setupResult
            ELSE /\ Fail("ConfigEntryNotReady")
                 /\ UNCHANGED primaryData
    /\ UNCHANGED <<token, spotifyToken, refreshWired, devCreated, devData,
                   devLastSuccess, devTimer, inflight, getDevicesCalls,
                   updateFnExit, devFirstOutcome, lastGood, services,
                   runtime_data, forwarded, lastCall>>

\* the part of a refresh of the device coordinator that runs once
\* get_devices has ended in `outcome`: the token the refresh callback
\* (lines 57-62) handed to the client, and the coordinator's bookkeeping
RefreshCompletes(outcome, res) ==
    /\ outcome.kind = "ClientError" => refreshWired
    /\ IF outcome.kind = "ClientError" \/ ~refreshWired
          THEN UNCHANGED <<token, spotifyToken>>
          ELSE /\ token' \in RefreshedTokens
               /\ spotifyToken' = token'.access_token
    /\ devData' = DataAfterRefresh(devData, res)
    /\ devLastSuccess' = (res.exit = "return")
    /\ updateFnExit' = res.exit
    /\ lastGood' = IF outcome.kind = "ok" THEN Snapshot(outcome.devices) ELSE lastGood

\* lines 70-84: the device coordinator and its first refresh
DeviceFirstRefresh ==
    /\ pc = "device_first_refresh"
    /\ devCreated' = TRUE
    /\ getDevicesCalls' = getDevicesCalls + 1
    /\ \E outcome \in FetchOutcomes :
         LET res == update_devices(outcome)
         IN  /\ RefreshCompletes(outcome, res)
             /\ devFirstOutcome' = outcome.kind
             /\ IF first_refresh_raises(res) = "none"
                   THEN /\ pc' = After("device_first_refresh")
                        /\ UNCHANGED setupResult
                   ELSE Fail(first_refresh_raises(res))
    /\ UNCHANGED <<refreshWired, primaryCreated, primaryData, devTimer, inflight,
                   services, runtime_data, forwarded, lastCall>>

\* lines 87-90
RegisterUpdateDevices ==
    /\ pc = "register_update_devices"
    /\ services' = services \cup {"update_devices"}
    /\ pc' = After("register_update_devices")
    /\ UNCHANGED <<setupResult, token, spotifyToken, refreshWired, primaryCreated,
                   primaryData, devCreated, devData, devLastSuccess, devTimer,
                   inflight, getDevicesCalls, updateFnExit, devFirstOutcome,
                   lastGood, runtime_data, forwarded, lastCall>>

\* lines 93-98
RegisterSearch ==
    /\ pc = "register_search"
    /\ services' = services \cup {"search"}
    /\ pc' = After("register_search")
    /\ UNCHANGED <<setupResult, token, spotifyToken, refreshWired, primaryCreated,
                   primaryData, devCreated, devData, devLastSuccess, devTimer,
                   inflight, getDevicesCalls, updateFnExit, devFirstOutcome,
                   lastGood, runtime_data, forwarded, lastCall>>

\* line 122
SetRuntimeData ==
    /\ pc = "set_runtime_data"
    /\ runtime_data' = SpotifyData("coordinator", "session", "device_coordinator")
    /\ pc' = After("set_runtime_data")
    /\ UNCHANGED <<setupResult, token, spotifyToken, refreshWired, primaryCreated,
                   primaryData, devCreated, devData, devLastSuccess, devTimer,
                   inflight, getDevicesCalls, updateFnExit, devFirstOutcome,
                   lastGood, services, forwarded, lastCall>>

\* lines 124-125
CheckScopes ==
    /\ pc = "check_scopes"
    /\ IF ScopesSufficient(token.scope)
          THEN /\ pc' = After("check_scopes")
               /\ UNCHANGED setupResult
          ELSE Fail("ConfigEntryAuthFailed")
    /\ UNCHANGED <<token, spotifyToken, refreshWired, primaryCreated, primaryData,
                   devCreated, devData, devLastSuccess, devTimer, inflight,
                   getDevicesCalls, updateFnExit, devFirstOutcome, lastGood,
                   services, runtime_data, forwarded, lastCall>>

\* line 127: the platforms are set up; their entities subscribe to the
\* coordinators, which arms the device coordinator's 5-minute timer (line 81)
ForwardPlatforms ==
    /\ pc = "forward_platforms"
    /\ forwarded' = PLATFORMS
    /\ devTimer' = devCreated
    /\ pc' = After("forward_platforms")
    /\ UNCHANGED <<setupResult, token, spotifyToken, refreshWired, primaryCreated,
                   primaryData, devCreated, devData, devLastSuccess, inflight,
                   getDevicesCalls, updateFnExit, devFirstOutcome, lastGood,
                   services, runtime_data, lastCall>>

\* line 128
ReturnTrue ==
    /\ pc = "return_true"
    /\ setupResult' = "True"
    /\ pc' = After("return_true")
    /\ UNCHANGED <<token, spotifyToken, refreshWired, primaryCreated, primaryData,
                   devCreated, devData, devLastSuccess, devTimer, inflight,
                   getDevicesCalls, updateFnExit, devFirstOutcome, lastGood,
                   services, runtime_data, forwarded, lastCall>>

(* ------------------- refreshes of the device coordinator -------------- *)

\* a refresh begins: the pending timer is cancelled, then the update method
\* is awaited, which calls spotify.get_devices() (line 72)
BeginRefresh(kind) ==
    /\ Yielding
    /\ devCreated
    /\ Len(inflight) < MaxInFlight
    /\ getDevicesCalls < MaxCalls
    /\ devTimer' = FALSE
    /\ inflight' = Append(inflight, [kind |-> kind])
    /\ getDevicesCalls' = getDevicesCalls + 1

\* a refresh ends: the coordinator's bookkeeping, and the next scheduled
\* refresh is armed while entities listen
EndRefresh(i, outcome, res) ==
    /\ RefreshCompletes(outcome, res)
    /\ inflight' = RemoveAt(inflight, i)
    /\ devTimer' = (forwarded # {})

\* the 5-minute timer of the device coordinator fires (line 81)
ScheduledPollStart ==
    /\ devTimer
    /\ BeginRefresh("scheduled")
    /\ UNCHANGED <<pc, setupResult, token, spotifyToken, refreshWired,
                   primaryCreated, primaryData, devCreated, devData,
                   devLastSuccess, updateFnExit, devFirstOutcome, lastGood,
                   services, runtime_data, forwarded, lastCall>>

ScheduledPollFinish ==
    /\ \E i \in DOMAIN inflight :
         /\ inflight[i].kind = "scheduled"
         /\ \E outcome \in FetchOutcomes : EndRefresh(i, outcome, update_devices(outcome))
    /\ UNCHANGED <<pc, setupResult, refreshWired, primaryCreated, primaryData,
                   devCreated, getDevicesCalls, devFirstOutcome, services,
                   runtime_data, forwarded, lastCall>>

\* lines 87-88: the update_devices service is called; the handler awaits
\* device_coordinator.async_refresh()
HandleUpdateDevicesStart ==
    /\ "update_devices" \in services
    /\ BeginRefresh("manual")
    /\ UNCHANGED <<pc, setupResult, token, spotifyToken, refreshWired,
                   primaryCreated, primaryData, devCreated, devData,
                   devLastSuccess, updateFnExit, devFirstOutcome, lastGood,
                   services, runtime_data, forwarded, lastCall>>

\* line 88 returns: the handler ends (it returns None)
HandleUpdateDevicesFinish ==
    /\ \E i \in DOMAIN inflight :
         /\ inflight[i].kind = "manual"
         /\ \E outcome \in FetchOutcomes :
              LET res == update_devices(outcome)
              IN  /\ EndRefresh(i, outcome, res)
                  /\ lastCall' = [service |-> "update_devices",
                                  raised |-> async_refresh_raises(res),
                                  response |-> NoPayload,
                                  refresh |-> res.exit,
                                  dataBefore |-> devData,
                                  dataAfter |-> devData',
                                  lastUpdateSuccess |-> devLastSuccess']
    /\ UNCHANGED <<pc, setupResult, refreshWired, primaryCreated, primaryData,
                   devCreated, getDevicesCalls, devFirstOutcome, services,
                   runtime_data, forwarded>>

(* --------------------------- search service --------------------------- *)

\* what the handler is given and what it calls, as the host defines them:
\* the attributes of homeassistant.core.ServiceCall (the `call` of line 93)
\* and of the service registry hass.services (line 96)
ServiceCallAttributes ==
    {"hass", "domain", "service", "data", "context", "return_response"}

ServiceRegistryAttributes ==
    {"services", "async_services", "has_service", "supports_response",
     "register", "async_register", "remove", "async_remove", "call", "async_call"}

\* the queries and search types a caller may pass in call.data
Queries == {"None", "anything"}
SearchTypes == {"None", "track", "artist"}

\* _handle_search (lines 93-96): builds the fixed list, then hands it to
\* hass.services.async_set_results under call.id.  Looking up an attribute an
\* object does not have raises AttributeError; the handler itself returns None.
handle_search(query, search_type) ==
    LET results == <<"sonuc1", "sonuc2", "sonuc3">>
    IN  IF "id" \in ServiceCallAttributes /\ "async_set_results" \in ServiceRegistryAttributes
           THEN [raised |-> "none", response |-> results]
           ELSE [raised |-> "AttributeError", response |-> NoPayload]

\* the search service is called
HandleSearch ==
    /\ Yielding
    /\ "search" \in services
    /\ \E query \in Queries, search_type \in SearchTypes :
         LET r == handle_search(query, search_type)
         IN  lastCall' = [service |-> "search", raised |-> r.raised,
                          response |-> r.response, refresh |-> "none",
                          dataBefore |-> devData, dataAfter |-> devData,
                          lastUpdateSuccess |-> devLastSuccess]
    /\ UNCHANGED <<pc, setupResult, token, spotifyToken, refreshWired,
                   primaryCreated, primaryData, devCreated, devData,
                   devLastSuccess, devTimer, inflight, getDevicesCalls,
                   updateFnExit, devFirstOutcome, lastGood, services,
                   runtime_data, forwarded>>

(* ------------------------------ behaviour ----------------------------- *)

Next ==
    \/ EnsureTokenValid
    \/ Authenticate
    \/ PrimaryFirstRefresh
    \/ DeviceFirstRefresh
    \/ RegisterUpdateDevices
    \/ RegisterSearch
    \/ SetRuntimeData
    \/ CheckScopes
    \/ ForwardPlatforms
    \/ ReturnTrue
    \/ ScheduledPollStart
    \/ ScheduledPollFinish
    \/ HandleUpdateDevicesStart
    \/ HandleUpdateDevicesFinish
    \/ HandleSearch

Spec == Init /\ [][Next]_vars

(* ------------------------------- claims ------------------------------- *)

\* every required scope is listed in the token's scope string
AllRequiredGranted ==
    \A r \in SPOTIFY_SCOPES : \E i \in DOMAIN token.scope : token.scope[i] = r

\* C1: when setup fails with ConfigEntryAuthFailed because a required scope
\* is missing, no coordinator exists or has polled and the runtime context is
\* not populated.
C1_AuthFailedBeforeCoordinators ==
    (~AllRequiredGranted /\ setupResult = "ConfigEntryAuthFailed") =>
        /\ ~primaryCreated
        /\ ~devCreated
        /\ getDevicesCalls = 0
        /\ runtime_data = NoRuntimeData

\* C2: with a valid token that grants every required scope and both first
\* polls successful, the setup does not fail, and once it has returned True
\* the runtime context holds the primary coordinator, the session and the
\* device coordinator, each coordinator holding the data of its first poll.
C2_SetupSucceeds ==
    (AllRequiredGranted /\ primaryData = "playback" /\ devFirstOutcome = "ok") =>
        /\ pc # "failed"
        /\ pc = "done" =>
             /\ setupResult = "True"
             /\ runtime_data = [coordinator |-> "coordinator", session |-> "session",
                                devices |-> "device_coordinator"]
             /\ primaryCreated /\ devCreated
             /\ devData.ready

C2_Witness ==
    /\ pc = "done"
    /\ setupResult = "True"
    /\ AllRequiredGranted
    /\ Len(token.scope) = 3
    /\ devFirstOutcome = "ok"

\* C3: when get_devices raises SpotifyConnectionError in the device
\* coordinator's first refresh, the setup has failed with ConfigEntryNotReady:
\* no service is registered, the runtime context is not set and no platform
\* setup is forwarded.
C3_FirstDevicePollFails ==
    devFirstOutcome = "SpotifyConnectionError" =>
        /\ pc = "failed"
        /\ setupResult = "ConfigEntryNotReady"
        /\ services = {}
        /\ runtime_data = NoRuntimeData
        /\ forwarded = {}

C3_Witness ==
    /\ devFirstOutcome = "SpotifyConnectionError"
    /\ pc = "failed"
    /\ primaryData = "playback"
    /\ getDevicesCalls = 1

\* C4: once a poll of the device coordinator has succeeded, the coordinator's
\* data is the list the most recent successful poll returned, whatever polls
\* failed since, and it is never uninitialized again.
C4_LastGoodRetained ==
    lastGood.ready => (devData.ready /\ devData = lastGood)

C4_Witness ==
    /\ devData = Snapshot(<<"d1">>)
    /\ ~devLastSuccess
    /\ getDevicesCalls >= 3
    /\ inflight = << >>

\* C5: a call of update_devices made while a scheduled poll is in flight
\* starts no get_devices call of its own.
C5_ManualCoalesced ==
    [][(HandleUpdateDevicesStart /\ ScheduledInFlight)
          => getDevicesCalls' = getDevicesCalls]_vars

\* C6: the update_devices handler raises nothing and returns no payload; when
\* its refresh failed, the failure is recorded by the coordinator
\* (last_update_success is false) and the stored device list is unchanged.
C6_UpdateDevicesSilent ==
    lastCall.service = "update_devices" =>
        /\ lastCall.raised = "none"
        /\ lastCall.response = NoPayload
        /\ lastCall.refresh # "return" =>
             /\ ~lastCall.lastUpdateSuccess
             /\ lastCall.dataAfter = lastCall.dataBefore

C6_Witness ==
    /\ lastCall.service = "update_devices"
    /\ lastCall.refresh = "UpdateFailed"
    /\ lastCall.dataBefore = Snapshot(<<"d1", "d2">>)
    /\ devData = Snapshot(<<"d1", "d2">>)

\* C7: every call of the search service produces the list
\* <<"sonuc1", "sonuc2", "sonuc3">>, whatever its parameters.
C7_SearchFixedResults ==
    lastCall.service = "search" =>
        /\ lastCall.raised = "none"
        /\ lastCall.response = <<"sonuc1", "sonuc2", "sonuc3">>

\* C9: whatever leaves the update function of the device coordinator is a
\* value or an error of the taxonomy, never a raw transport exception.
C9_NoRawTransportError ==
    updateFnExit \in {"none", "return", "UpdateFailed",
                      "ConfigEntryAuthFailed", "ConfigEntryNotReady"}

\* C10: services are registered only after both first polls succeeded, and
\* platform setup is forwarded only with the runtime context populated, every
\* required scope granted and both coordinators holding data.
C10_SetupOrder ==
    /\ services # {} =>
         /\ primaryData = "playback"
         /\ devFirstOutcome = "ok"
         /\ devData.ready
    /\ forwarded # {} =>
         /\ forwarded = PLATFORMS
         /\ services = {"update_devices", "search"}
         /\ runtime_data # NoRuntimeData
         /\ AllRequiredGranted
         /\ primaryData = "playback"
         /\ devData.ready

C10_Witness ==
    /\ forwarded = PLATFORMS
    /\ pc = "return_true"
    /\ services = {"update_devices", "search"}
    /\ AllRequiredGranted

====
